---------------------------- MODULE Spec2Model ----------------------------
(***************************************************************************)
(* A model of the useDApp wallet layer: the global client state, the       *)
(* account actions (disconnect, setLedgerAccountIndex, getLedgerPublicKey),*)
(* the Ledger connector, the CasperWallet connector and the useSign hook.  *)
(*                                                                         *)
(* Every async function is a call (a process) whose position moves from    *)
(* one await to the next; the code between two awaits is one atomic step,  *)
(* and the steps of overlapping calls interleave freely.  JavaScript       *)
(* values are written as strings ("undefined", "true", "02pk(...)").       *)
(***************************************************************************)
EXTENDS Integers, Sequences, FiniteSets, TLC

(* ------------------------------ bounds --------------------------------- *)
\* Number of calls (processes) a run may start.
NumCalls == 2
\* Ledger account indices are "0" .. ToString(MaxIndex).
MaxIndex == 1

Calls == 1..NumCalls
Indices == {ToString(i) : i \in 0..MaxIndex}

(* ------------------------------ values --------------------------------- *)
Undefined == "undefined"

\* A settled or pending promise: kind is "none" (pending), "resolved" or
\* "rejected"; value is the value or the error.
NoResult == [kind |-> "none", value |-> Undefined]
Resolved(v) == [kind |-> "resolved", value |-> v]
Rejected(e) == [kind |-> "rejected", value |-> e]

\* JavaScript's `x || d` on an optional string.
OrElse(x, d) == IF x \in {Undefined, ""} THEN d ELSE x

\* JavaScript's `!!x` on an optional string, written as a literal.
Truthy(x) == IF x \in {Undefined, ""} THEN "false" ELSE "true"

\* getLedgerPath(index): the derivation path of account `index`.
getLedgerPath(index) == "m/44'/506'/0'/0/" \o index

\* The public key the device holds at a path, in hex.
DevicePublicKey(path) == "pk(" \o path \o ")"

\* `${AlgoEnum.SECP256K1}${publicKey.toString('hex')}`
AlgoSECP256K1 == "02"
FormatPublicKey(publicKey) == AlgoSECP256K1 \o publicKey

\* The key getPublicKey(index) resolves to when the device answers.
LedgerKeyOf(index) == FormatPublicKey(DevicePublicKey(getLedgerPath(index)))

(* ------------------------------- state --------------------------------- *)
VARIABLES
  client,   \* the global client: connector id, status, data.activeKey, data.ledgerAccountIndex
  ledger,   \* CasperLedgerConnector fields: accountIndex, transport, casperApp
  nextT,    \* number of transports TransportWebUSB.create() has opened
  wallet,   \* CasperWalletConnector and its environment: installed, isReady, listeners, siteConnected
  procs,    \* the calls: operation, position, arguments, locals, outcome
  hook      \* the useSign hook: status, variables, onSuccess calls

vars == <<client, ledger, nextT, wallet, procs, hook>>

WalletEvents ==
  {"casper-wallet:activeKeyChanged", "casper-wallet:disconnected",
   "casper-wallet:connected", "casper-wallet:unlocked"}

\* A CasperWallet provider response to sign / signMessage:
\* { cancelled: true } or { cancelled: false, signatureHex, signature }.
NoResponse == [cancelled |-> FALSE, signatureHex |-> Undefined]
Signatures == {"a1", "b2"}
Responses ==
  {[cancelled |-> TRUE, signatureHex |-> Undefined]}
    \cup {[cancelled |-> FALSE, signatureHex |-> s] : s \in Signatures}

IdleProc ==
  [op |-> "none", pc |-> "idle", index |-> Undefined,
   deployOk |-> TRUE, keyOk |-> TRUE,
   path |-> Undefined,      \* the derivation path sent to the device
   app |-> 0,               \* local casperApp: the transport it wraps
   opened |-> 0,            \* the transport this call's connect() created
   used |-> 0,              \* the transport this call sent its request on
   closed |-> <<>>,         \* the transports this call called close() on
   resp |-> NoResponse,     \* the provider's response (CasperWallet)
   added |-> {},            \* the listeners this call registered
   inner |-> NoResult,      \* outcome of the connector call
   out |-> NoResult,        \* outcome of the call itself
   logs |-> 0]              \* console.error calls made by the call

\* The client after construction and, for a connector, after connect.
ClientInit(c) ==
  [connector |-> c,
   status |-> IF c = "none" THEN "DISCONNECTED" ELSE "CONNECTED",
   activeKey |-> CASE c = "none" -> Undefined
                   [] c = "ledger" -> LedgerKeyOf("0")
                   [] OTHER -> "01walletKey",
   ledgerAccountIndex |-> Undefined]

LedgerInit == [accountIndex |-> Undefined, transport |-> 0, casperApp |-> 0]

WalletInit(installed) ==
  [installed |-> installed, isReady |-> installed, listeners |-> {},
   siteConnected |-> FALSE]

\* useSign's parameters and a call's arguments: deploy, signingPublicKey,
\* targetPublicKeyHex.  A field a call does not pass is Absent.
Absent == "absent"
DeployValues == {Undefined, "{}"}
KeyValues == {Undefined, "", "abc"}
SignParams ==
  [deploy : DeployValues, signingPublicKey : KeyValues, targetPublicKeyHex : KeyValues]
SignArgs ==
  [deploy : DeployValues \cup {Absent}, signingPublicKey : KeyValues \cup {Absent},
   targetPublicKeyHex : KeyValues \cup {Absent}]
NoArgs == [deploy |-> Absent, signingPublicKey |-> Absent, targetPublicKeyHex |-> Absent]
NoParams ==
  [deploy |-> Undefined, signingPublicKey |-> Undefined, targetPublicKeyHex |-> Undefined]

\* The useSign hook rendered with `params`; the fields from `mode` on describe
\* the latest request.
HookInit(params) ==
  [params |-> params,
   status |-> "idle",       \* idle, loading, success, error
   error |-> Undefined,     \* the hook's error
   requests |-> 0,          \* requests started
   mode |-> "none",         \* sign (fire and forget) or signAsync (awaited)
   args |-> NoArgs,         \* the arguments of the call
   variables |-> NoParams,  \* the request's variables
   phase |-> "idle",        \* validate, signing, resolved, rejected, idle
   thrown |-> Undefined,    \* what the mutation function threw
   promise |-> NoResult,    \* the promise signAsync returned
   onSuccess |-> <<>>,      \* the onSuccess calls: their variables
   logs |-> 0]              \* console.error calls

HookIdle == HookInit(NoParams)

(* ------------------------- shared step helpers ------------------------- *)
Set(p, r) == procs' = [procs EXCEPT ![p] = r]

\* Calls start in order of their number (the calls are interchangeable).
CanStart(p) ==
  /\ procs[p].pc = "idle"
  /\ IF p = 1 THEN TRUE ELSE procs[p - 1].pc # "idle"

Finish(r, o) == [r EXCEPT !.pc = "done", !.out = o]

\* catch (error) { console.error(error); throw error; }
LogAndRethrow(r, e) ==
  [r EXCEPT !.pc = "done", !.out = Rejected(e), !.logs = @ + 1]

(* --------------------- CasperLedgerConnector steps --------------------- *)
\* connect(): TransportWebUSB.create() resolved; the continuation stores the
\* transport and a CasperApp on it in the connector.
LedgerConnectOk(p) ==
  /\ procs[p].pc = "create"
  /\ nextT' = nextT + 1
  /\ ledger' = [ledger EXCEPT !.transport = nextT + 1, !.casperApp = nextT + 1]
  /\ Set(p, [procs[p] EXCEPT !.pc = "provider", !.opened = nextT + 1])
  /\ UNCHANGED <<client, wallet, hook>>

\* connect(): TransportWebUSB.create() rejected: throw Error(getLedgerError(error)).
LedgerConnectFail(p) ==
  /\ procs[p].pc = "create"
  /\ Set(p, [procs[p] EXCEPT !.pc = "ret", !.inner = Rejected("LedgerError:connect")])
  /\ UNCHANGED <<client, ledger, nextT, wallet, hook>>

\* getProvider() after connect(): returns this.casperApp as it is now.  The
\* caller then sends its request on it (getPublicKey), after reading
\* this.accountIndex (signMessage, sign); sign first unwraps the deploy.
LedgerGetProvider(p) ==
  LET r == procs[p]
      app == ledger.casperApp
      path == IF r.op \in {"L.signMessage", "L.sign"}
              THEN getLedgerPath(OrElse(ledger.accountIndex, r.index))
              ELSE getLedgerPath(r.index)
  IN
  /\ r.pc = "provider"
  /\ IF r.op = "L.sign" /\ ~r.deployOk
     THEN Set(p, [r EXCEPT !.pc = "ret", !.app = app,
                           !.inner = Rejected("Error:unwrap")])
     ELSE Set(p, [r EXCEPT !.pc = "io", !.app = app, !.used = app, !.path = path])
  /\ UNCHANGED <<client, ledger, nextT, wallet, hook>>

\* `await this.transport.close()`: close() is called on the connector's
\* current transport, and the call goes on when it has resolved.
Closing(r, res) ==
  [r EXCEPT !.pc = "closing", !.closed = Append(@, ledger.transport), !.inner = res]

\* getPublicKey: the device's answer to getAddressAndPubKey(path).
LedgerPublicKeyResponse(p) ==
  LET r == procs[p] IN
  /\ r.pc = "io"
  /\ r.op \in {"setLedgerAccountIndex", "getLedgerPublicKey", "L.getPublicKey", "L.isConnected"}
  /\ \E answer \in {"ok", "errorMessage", "throws", "noKey"} :
       Set(p, CASE answer = "ok" ->
                     Closing(r, Resolved(FormatPublicKey(DevicePublicKey(r.path))))
                [] answer = "noKey" -> Closing(r, Rejected("Error:CONNECT_ERROR_MESSAGE"))
                [] OTHER -> Closing(r, Rejected("LedgerError:device")))
  /\ UNCHANGED <<client, ledger, nextT, wallet, hook>>

\* signMessage: the device's answer to casperApp.signMessage(path, message).
LedgerSignMessageResponse(p) ==
  LET r == procs[p] IN
  /\ r.pc = "io"
  /\ r.op = "L.signMessage"
  /\ \E answer \in {"ok", "empty", "throws"} :
       Set(p, CASE answer = "ok" -> Closing(r, Resolved("sigRSV(" \o r.path \o ")"))
                [] answer = "empty" ->
                     Closing(r, Rejected("Error on sign message with ledger."))
                [] OTHER -> [r EXCEPT !.pc = "ret", !.inner = Rejected("Error:device")])
  /\ UNCHANGED <<client, ledger, nextT, wallet, hook>>

\* sign: the device's answer to casperApp.sign(path, bytes), then
\* setSignature / CLPublicKey.fromHex / validateDeploy.
LedgerSignResponse(p) ==
  LET r == procs[p] IN
  /\ r.pc = "io"
  /\ r.op = "L.sign"
  /\ \E answer \in {"ok", "invalid", "noSignature", "throws"} :
       Set(p, CASE answer = "throws" ->
                     [r EXCEPT !.pc = "ret", !.inner = Rejected("Error:device")]
                [] answer = "noSignature" ->
                     [Closing(r, Rejected("LedgerError:sign")) EXCEPT !.logs = @ + 1]
                [] answer \in {"ok", "invalid"} /\ ~r.keyOk ->
                     [r EXCEPT !.pc = "ret", !.inner = Rejected("Error:fromHex")]
                [] answer = "ok" /\ r.keyOk ->
                     Closing(r, Resolved("signedDeploy(" \o r.path \o ")"))
                [] OTHER -> Closing(r, Rejected("Error on sign deploy with ledger.")))
  /\ UNCHANGED <<client, ledger, nextT, wallet, hook>>

\* transport.close() resolved.
LedgerCloseDone(p) ==
  /\ procs[p].pc = "closing"
  /\ Set(p, [procs[p] EXCEPT !.pc = "ret"])
  /\ UNCHANGED <<client, ledger, nextT, wallet, hook>>

\* getPublicKey / signMessage / sign called on the connector directly: the
\* caller gets the connector call's outcome.
LedgerReturn(p) ==
  LET r == procs[p] IN
  /\ r.pc = "ret"
  /\ r.op \in {"L.getPublicKey", "L.signMessage", "L.sign"}
  /\ Set(p, Finish(r, r.inner))
  /\ UNCHANGED <<client, ledger, nextT, wallet, hook>>

\* isConnected(): return !! await this.getActivePublicKey();
LedgerIsConnectedReturn(p) ==
  LET r == procs[p] IN
  /\ r.pc = "ret"
  /\ r.op = "L.isConnected"
  /\ Set(p, Finish(r, IF r.inner.kind = "resolved"
                      THEN Resolved(Truthy(r.inner.value))
                      ELSE r.inner))
  /\ UNCHANGED <<client, ledger, nextT, wallet, hook>>

\* A call of getPublicKey(index), signMessage(.., {index}) or sign(.., {index})
\* on the Ledger connector: getProvider() calls connect(), which awaits
\* TransportWebUSB.create().
StartLedgerCall(p) ==
  /\ CanStart(p)
  /\ \E op \in {"L.getPublicKey", "L.signMessage", "L.sign"}, i \in Indices,
        d \in BOOLEAN, k \in BOOLEAN :
       /\ op # "L.sign" => d /\ k
       /\ Set(p, [procs[p] EXCEPT !.op = op, !.pc = "create", !.index = i,
                                  !.deployOk = d, !.keyOk = k])
  /\ UNCHANGED <<client, ledger, nextT, wallet, hook>>

\* isConnected() -> getActivePublicKey() -> getPublicKey(this.accountIndex || '0')
StartLedgerIsConnected(p) ==
  /\ CanStart(p)
  /\ Set(p, [procs[p] EXCEPT !.op = "L.isConnected", !.pc = "create",
                             !.index = OrElse(ledger.accountIndex, "0")])
  /\ UNCHANGED <<client, ledger, nextT, wallet, hook>>

(* --------------------- CasperWalletConnector steps --------------------- *)
\* getProvider(): options.getProvider() gives the provider, or undefined when
\* the extension is not installed (ConnectorNotFoundError); a provider found
\* sets isReady.
WalletGetProvider(p, r, next) ==
  /\ CanStart(p)
  /\ IF wallet.installed
     THEN /\ wallet' = [wallet EXCEPT !.isReady = TRUE]
          /\ Set(p, [r EXCEPT !.pc = next])
     ELSE /\ Set(p, [r EXCEPT !.pc = "ret", !.inner = Rejected("ConnectorNotFoundError")])
          /\ UNCHANGED wallet

\* isConnected(): provider.isConnected() is called once the provider is found.
StartWalletIsConnected(p) ==
  /\ WalletGetProvider(p, [procs[p] EXCEPT !.op = "W.isConnected"], "w_call")
  /\ UNCHANGED <<client, ledger, nextT, hook>>

\* provider.isConnected() settles.
WalletIsConnectedSettle(p) ==
  LET r == procs[p] IN
  /\ r.pc = "w_call"
  /\ r.op = "W.isConnected"
  /\ \E ok \in BOOLEAN :
       Set(p, [r EXCEPT !.pc = "ret",
                        !.inner = IF ok
                                  THEN Resolved(IF wallet.siteConnected THEN "true" ELSE "false")
                                  ELSE Rejected("ProviderError")])
  /\ UNCHANGED <<client, ledger, nextT, wallet, hook>>

\* isConnected(): try { ... } catch (err) { return false; }
WalletIsConnectedReturn(p) ==
  LET r == procs[p] IN
  /\ r.pc = "ret"
  /\ r.op = "W.isConnected"
  /\ Set(p, Finish(r, IF r.inner.kind = "resolved" THEN r.inner ELSE Resolved("false")))
  /\ UNCHANGED <<client, ledger, nextT, wallet, hook>>

\* connect(): getProvider().
StartWalletConnect(p) ==
  /\ WalletGetProvider(p, [procs[p] EXCEPT !.op = "W.connect"], "w_listeners")
  /\ UNCHANGED <<client, ledger, nextT, hook>>

\* connect(): the four addEventListener calls, then provider.requestConnection()
\* is called and awaited.
WalletConnectListeners(p) ==
  LET r == procs[p] IN
  /\ r.pc = "w_listeners"
  /\ r.op = "W.connect"
  /\ wallet' = [wallet EXCEPT !.listeners = @ \cup WalletEvents]
  /\ Set(p, [r EXCEPT !.pc = "w_call", !.added = WalletEvents])
  /\ UNCHANGED <<client, ledger, nextT, hook>>

\* provider.requestConnection() settles: approved, refused, or rejected.
WalletConnectSettle(p) ==
  LET r == procs[p] IN
  /\ r.pc = "w_call"
  /\ r.op = "W.connect"
  /\ \E answer \in {"approved", "refused", "rejects"} :
       /\ wallet' = [wallet EXCEPT !.siteConnected =
                       IF answer = "approved" THEN TRUE ELSE @]
       /\ Set(p, Finish(r, IF answer = "rejects"
                           THEN Rejected("ProviderError")
                           ELSE Resolved(Undefined)))
  /\ UNCHANGED <<client, ledger, nextT, hook>>

\* disconnect(): the four removeEventListener calls, then
\* provider.disconnectFromSite() is called and awaited.
WalletDisconnectListeners(p) ==
  LET r == procs[p] IN
  /\ r.pc = "w_unlisten"
  /\ wallet' = [wallet EXCEPT !.listeners = @ \ WalletEvents]
  /\ Set(p, [r EXCEPT !.pc = "w_call"])
  /\ UNCHANGED <<client, ledger, nextT, hook>>

\* provider.disconnectFromSite() settles.
WalletDisconnectSettle(p) ==
  LET r == procs[p] IN
  /\ r.pc = "w_call"
  /\ r.op \in {"W.disconnect", "disconnect"}
  /\ \E ok \in BOOLEAN :
       /\ wallet' = [wallet EXCEPT !.siteConnected = IF ok THEN FALSE ELSE @]
       /\ Set(p, [r EXCEPT !.pc = "ret",
                           !.inner = IF ok THEN Resolved(Undefined)
                                     ELSE Rejected("ProviderError")])
  /\ UNCHANGED <<client, ledger, nextT, hook>>

\* disconnect() called on the connector directly.
StartWalletDisconnect(p) ==
  /\ WalletGetProvider(p, [procs[p] EXCEPT !.op = "W.disconnect"], "w_unlisten")
  /\ UNCHANGED <<client, ledger, nextT, hook>>

\* The outcome of a connector call made directly (connect returns on its own).
WalletReturn(p) ==
  LET r == procs[p] IN
  /\ r.pc = "ret"
  /\ r.op \in {"W.connect", "W.disconnect", "W.signMessage", "W.sign"}
  /\ Set(p, Finish(r, r.inner))
  /\ UNCHANGED <<client, ledger, nextT, wallet, hook>>

\* signMessage(message, signingPublicKeyHex) and sign(deploy, signingPublicKeyHex):
\* getProvider(), then (sign: deployFromJson, which returns a Result)
\* provider.signMessage / provider.sign is called and awaited.
StartWalletSign(p) ==
  /\ \E op \in {"W.signMessage", "W.sign"}, d \in BOOLEAN, k \in BOOLEAN :
       /\ op = "W.signMessage" => d /\ k
       /\ WalletGetProvider(p, [procs[p] EXCEPT !.op = op, !.deployOk = d, !.keyOk = k],
                            "w_call")
  /\ UNCHANGED <<client, ledger, nextT, hook>>

\* sign(): DeployUtil.deployToJson(DeployUtil.setSignature(deployJson.unwrap(),
\* res.signature, CLPublicKey.fromHex(signingPublicKeyHex))): unwrap() throws on
\* a deploy that did not parse, fromHex on a key that is not valid hex.
WalletSignedDeploy(r, res) ==
  CASE ~r.deployOk -> Rejected("Error:unwrap")
    [] r.deployOk /\ ~r.keyOk -> Rejected("Error:fromHex")
    [] OTHER -> Resolved("signedDeploy(" \o res.signatureHex \o ")")

\* sign / signMessage without the `cancelled` test.
WalletSignResultNoCancelTest(r, res) ==
  IF r.op = "W.signMessage" THEN Resolved(res.signatureHex)
  ELSE WalletSignedDeploy(r, res)

\* What sign / signMessage make of the provider's response.
WalletSignResult(r, res) ==
  CASE res.cancelled -> Resolved(Undefined)
    [] ~res.cancelled /\ r.op = "W.signMessage" -> Resolved(res.signatureHex)
    [] OTHER -> WalletSignedDeploy(r, res)

\* provider.signMessage / provider.sign settles: a response, or a rejection.
WalletSignSettle(p) ==
  LET r == procs[p] IN
  /\ r.pc = "w_call"
  /\ r.op \in {"W.signMessage", "W.sign"}
  /\ \/ \E res \in Responses :
          Set(p, [Finish(r, WalletSignResult(r, res)) EXCEPT !.resp = res, !.pc = "done"])
     \/ Set(p, Finish(r, Rejected("ProviderError")))
  /\ UNCHANGED <<client, ledger, nextT, wallet, hook>>

(* --------------------------- account actions --------------------------- *)
\* disconnect(): await client.connector?.disconnect().  The Ledger connector's
\* disconnect does nothing; without a connector nothing is called; the
\* CasperWallet connector's disconnect starts with getProvider().
StartDisconnect(p) ==
  LET r == [procs[p] EXCEPT !.op = "disconnect"] IN
  /\ IF client.connector = "casperWallet"
     THEN WalletGetProvider(p, r, "w_unlisten")
     ELSE /\ CanStart(p)
          /\ Set(p, [r EXCEPT !.pc = "ret", !.inner = Resolved(Undefined)])
          /\ UNCHANGED wallet
  /\ UNCHANGED <<client, ledger, nextT, hook>>

\* disconnect(), after the connector's disconnect resolved: setState to
\* DISCONNECTED with no active key.
DisconnectCommit(p) ==
  LET r == procs[p] IN
  /\ r.pc = "ret"
  /\ r.op = "disconnect"
  /\ r.inner.kind = "resolved"
  /\ client' = [client EXCEPT !.status = "DISCONNECTED", !.activeKey = Undefined]
  /\ Set(p, Finish(r, Resolved(Undefined)))
  /\ UNCHANGED <<ledger, nextT, wallet, hook>>

\* disconnect(), after the connector's disconnect rejected:
\* catch (error) { console.error(error); } and the action resolves.
DisconnectCatch(p) ==
  LET r == procs[p] IN
  /\ r.pc = "ret"
  /\ r.op = "disconnect"
  /\ r.inner.kind = "rejected"
  /\ Set(p, [Finish(r, Resolved(Undefined)) EXCEPT !.logs = @ + 1])
  /\ UNCHANGED <<client, ledger, nextT, wallet, hook>>

\* The start of setLedgerAccountIndex({index}) and getLedgerPublicKey({index}):
\* a connector that is not the Ledger one throws ConnectorNotLedgerError, which
\* is logged and rethrown; with the Ledger connector getPublicKey(index) is
\* called.  Without a connector setLedgerAccountIndex calls a method of
\* undefined (a TypeError, logged and rethrown) and getLedgerPublicKey's
\* `connector?.getPublicKey` gives undefined.
StartLedgerAction(p, op, i) ==
  LET r == [procs[p] EXCEPT !.op = op, !.index = i] IN
  /\ CanStart(p)
  /\ Set(p, CASE client.connector = "ledger" -> [r EXCEPT !.pc = "create"]
             [] client.connector = "casperWallet" ->
                  LogAndRethrow(r, "ConnectorNotLedgerError")
             [] client.connector = "none" /\ op = "setLedgerAccountIndex" ->
                  LogAndRethrow(r, "TypeError")
             [] OTHER -> Finish(r, Resolved(Undefined)))
  /\ UNCHANGED <<client, ledger, nextT, wallet, hook>>

StartSetLedgerAccountIndex(p) ==
  \E i \in Indices : StartLedgerAction(p, "setLedgerAccountIndex", i)

StartGetLedgerPublicKey(p) ==
  \E i \in Indices : StartLedgerAction(p, "getLedgerPublicKey", i)

\* The commit without connector.setAccountIndex(index).
SetLedgerAccountIndexCommitNoSetIndex(p) ==
  LET r == procs[p] IN
  /\ r.pc = "ret"
  /\ r.op = "setLedgerAccountIndex"
  /\ r.inner.kind = "resolved"
  /\ client' = [client EXCEPT !.ledgerAccountIndex = r.index,
                              !.activeKey = r.inner.value]
  /\ Set(p, Finish(r, Resolved(Undefined)))
  /\ UNCHANGED <<ledger, nextT, wallet, hook>>

\* setLedgerAccountIndex, after getPublicKey(index) resolved: one setState
\* with the index and the key, then connector.setAccountIndex(index).
SetLedgerAccountIndexCommit(p) ==
  LET r == procs[p] IN
  /\ r.pc = "ret"
  /\ r.op = "setLedgerAccountIndex"
  /\ r.inner.kind = "resolved"
  /\ client' = [client EXCEPT !.ledgerAccountIndex = r.index,
                              !.activeKey = r.inner.value]
  /\ ledger' = [ledger EXCEPT !.accountIndex = r.index]
  /\ Set(p, Finish(r, Resolved(Undefined)))
  /\ UNCHANGED <<nextT, wallet, hook>>

\* getLedgerPublicKey, after getPublicKey(index) resolved: return publicKey.
GetLedgerPublicKeyReturn(p) ==
  LET r == procs[p] IN
  /\ r.pc = "ret"
  /\ r.op = "getLedgerPublicKey"
  /\ r.inner.kind = "resolved"
  /\ Set(p, Finish(r, r.inner))
  /\ UNCHANGED <<client, ledger, nextT, wallet, hook>>

\* setLedgerAccountIndex / getLedgerPublicKey, after getPublicKey(index)
\* rejected: catch (error) { console.error(error); throw error; }
LedgerActionCatch(p) ==
  LET r == procs[p] IN
  /\ r.pc = "ret"
  /\ r.op \in {"setLedgerAccountIndex", "getLedgerPublicKey"}
  /\ r.inner.kind = "rejected"
  /\ Set(p, LogAndRethrow(r, r.inner.value))
  /\ UNCHANGED <<client, ledger, nextT, wallet, hook>>

(* ---------------- the account actions and the Ledger connector --------- *)
\* A client connected through the CasperWallet connector has the extension
\* installed.
Init ==
  /\ \E c \in {"ledger", "casperWallet", "none"}, b \in BOOLEAN :
       /\ c = "casperWallet" => b
       /\ client = ClientInit(c)
       /\ wallet = WalletInit(b)
  /\ ledger = LedgerInit
  /\ nextT = 0
  /\ procs = [p \in Calls |-> IdleProc]
  /\ hook = HookIdle

LedgerSteps(p) ==
  \/ LedgerConnectOk(p)
  \/ LedgerConnectFail(p)
  \/ LedgerGetProvider(p)
  \/ LedgerPublicKeyResponse(p)
  \/ LedgerCloseDone(p)

Next ==
  \E p \in Calls :
    \/ StartDisconnect(p)
    \/ StartSetLedgerAccountIndex(p)
    \/ StartGetLedgerPublicKey(p)
    \/ StartLedgerCall(p)
    \/ StartLedgerIsConnected(p)
    \/ LedgerSteps(p)
    \/ LedgerSignMessageResponse(p)
    \/ LedgerSignResponse(p)
    \/ LedgerReturn(p)
    \/ LedgerIsConnectedReturn(p)
    \/ WalletDisconnectListeners(p)
    \/ WalletDisconnectSettle(p)
    \/ DisconnectCommit(p)
    \/ DisconnectCatch(p)
    \/ SetLedgerAccountIndexCommit(p)
    \/ GetLedgerPublicKeyReturn(p)
    \/ LedgerActionCatch(p)
    \/ StartWalletIsConnected(p)
    \/ WalletIsConnectedSettle(p)
    \/ WalletIsConnectedReturn(p)

Spec == Init /\ [][Next]_vars

(* ------------- setLedgerAccountIndex calls on their own ---------------- *)
InitSetIndex ==
  /\ \E c \in {"ledger", "casperWallet", "none"} : client = ClientInit(c)
  /\ ledger = LedgerInit
  /\ nextT = 0
  /\ wallet = WalletInit(TRUE)
  /\ procs = [p \in Calls |-> IdleProc]
  /\ hook = HookIdle

NextSetIndex ==
  \E p \in Calls :
    \/ StartSetLedgerAccountIndex(p)
    \/ LedgerSteps(p)
    \/ SetLedgerAccountIndexCommit(p)
    \/ LedgerActionCatch(p)

SpecSetIndex == InitSetIndex /\ [][NextSetIndex]_vars

(* -------------------- the CasperWallet connector ----------------------- *)
InitWallet ==
  /\ client = ClientInit("none")
  /\ ledger = LedgerInit
  /\ nextT = 0
  /\ \E b \in BOOLEAN : wallet = WalletInit(b)
  /\ procs = [p \in Calls |-> IdleProc]
  /\ hook = HookIdle

NextWallet ==
  \E p \in Calls :
    \/ StartWalletIsConnected(p)
    \/ WalletIsConnectedSettle(p)
    \/ WalletIsConnectedReturn(p)
    \/ StartWalletConnect(p)
    \/ WalletConnectListeners(p)
    \/ WalletConnectSettle(p)
    \/ StartWalletDisconnect(p)
    \/ WalletDisconnectListeners(p)
    \/ WalletDisconnectSettle(p)
    \/ StartWalletSign(p)
    \/ WalletSignSettle(p)
    \/ WalletReturn(p)

SpecWallet == InitWallet /\ [][NextWallet]_vars

(* ------------------------------ claims --------------------------------- *)
IsDone(p) == procs[p].pc = "done"

\* C1: whenever the connector call inside disconnect, setLedgerAccountIndex or
\* getLedgerPublicKey fails, the action logs the error and rejects with that
\* same error.
C1_ActionsLogAndRethrow ==
  \A p \in Calls :
    (/\ IsDone(p)
     /\ procs[p].op \in {"disconnect", "setLedgerAccountIndex", "getLedgerPublicKey"}
     /\ procs[p].inner.kind = "rejected")
    => /\ procs[p].logs = 1
       /\ procs[p].out = Rejected(procs[p].inner.value)

\* C10: a client whose status is DISCONNECTED holds no active key.
C10_DisconnectedHasNoActiveKey ==
  client.status = "DISCONNECTED" => client.activeKey = Undefined

\* C7: isConnected of either connector never rejects; it resolves to a boolean,
\* and to false when the provider or device call underneath failed.
C7_IsConnectedResolvesBoolean ==
  \A p \in Calls :
    (IsDone(p) /\ procs[p].op \in {"L.isConnected", "W.isConnected"})
    => /\ procs[p].out.kind = "resolved"
       /\ procs[p].out.value \in {"true", "false"}
       /\ procs[p].inner.kind = "rejected" => procs[p].out.value = "false"

\* Number of close() calls made on transport t, by all calls.
RECURSIVE CountIn(_, _)
CountIn(t, seq) ==
  IF seq = <<>> THEN 0
  ELSE (IF Head(seq) = t THEN 1 ELSE 0) + CountIn(t, Tail(seq))

RECURSIVE SumCloses(_, _)
SumCloses(t, ps) ==
  IF ps = {} THEN 0
  ELSE LET p == CHOOSE q \in ps : TRUE
       IN CountIn(t, procs[p].closed) + SumCloses(t, ps \ {p})

CloseCount(t) == SumCloses(t, Calls)

\* C6: a Ledger connector operation that completes talks to the transport it
\* opened itself and closes that transport exactly once; its transport is not
\* closed by another operation and is not left unclosed.
C6_OwnTransportClosedOnce ==
  \A p \in Calls :
    (/\ IsDone(p)
     /\ procs[p].op \in {"L.getPublicKey", "L.signMessage", "L.sign"}
     /\ procs[p].out.kind = "resolved")
    => /\ procs[p].used = procs[p].opened
       /\ procs[p].closed = <<procs[p].opened>>
       /\ CloseCount(procs[p].opened) = 1

\* C8: getLedgerPublicKey resolves to the key of the Ledger account currently
\* selected (the connector's account index, '0' when none is set), whatever
\* its index argument, and leaves the client state and the connector's
\* account index as they were.
C8_ReturnsSelectedAccountKey ==
  [][\A p \in Calls :
       (/\ procs[p].op = "getLedgerPublicKey"
        /\ procs[p].pc = "ret"
        /\ procs'[p].pc = "done"
        /\ procs'[p].out.kind = "resolved")
       => /\ procs'[p].out.value = LedgerKeyOf(OrElse(ledger.accountIndex, "0"))
          /\ client' = client
          /\ ledger'.accountIndex = ledger.accountIndex]_vars

\* C5: the four wallet event listeners are registered only once
\* provider.requestConnection has completed; a connect call whose request is
\* pending or has failed has registered none.
C5_ListenersAfterRequestConnection ==
  \A p \in Calls :
    (procs[p].op = "W.connect" /\ procs[p].added # {})
    => IsDone(p) /\ procs[p].out.kind = "resolved"

\* The Ledger account selection is consistent: the client's ledgerAccountIndex
\* is the connector's accountIndex, and once an index is selected the active
\* key is the key the device returns for that index.
LedgerSelectionConsistent ==
  /\ client.ledgerAccountIndex = ledger.accountIndex
  /\ client.ledgerAccountIndex # Undefined
       => client.activeKey = LedgerKeyOf(client.ledgerAccountIndex)

\* A step in which a setLedgerAccountIndex call rejects.
SetIndexFails(p) ==
  /\ procs[p].pc # "done"
  /\ procs'[p].pc = "done"
  /\ procs'[p].op = "setLedgerAccountIndex"
  /\ procs'[p].out.kind = "rejected"

\* C9: after any sequence of setLedgerAccountIndex calls, overlapping or
\* failing, data.ledgerAccountIndex equals the connector's accountIndex and
\* data.activeKey is the key the device returned for that index; a call that
\* fails changes none of the three.
C9_LedgerSelectionConsistent ==
  /\ LedgerSelectionConsistent
  /\ [][/\ LedgerSelectionConsistent'
        /\ (\E p \in Calls : SetIndexFails(p))
             => /\ client' = client
                /\ ledger'.accountIndex = ledger.accountIndex]_vars

\* Two setLedgerAccountIndex calls that overlapped (the first closed the
\* transport the second opened) both committed, with different indices.
C9_Witness ==
  \E p, q \in Calls :
    /\ p # q
    /\ IsDone(p) /\ IsDone(q)
    /\ procs[p].op = "setLedgerAccountIndex" /\ procs[q].op = "setLedgerAccountIndex"
    /\ procs[p].out.kind = "resolved" /\ procs[q].out.kind = "resolved"
    /\ procs[p].index # procs[q].index
    /\ procs[p].closed = <<procs[q].opened>>
    /\ client.ledgerAccountIndex # Undefined

\* A sign / signMessage call that got a response from the provider.
GotResponse(p) ==
  /\ IsDone(p)
  /\ procs[p].op \in {"W.sign", "W.signMessage"}
  /\ procs[p].resp \in Responses

\* The value sign / signMessage build from a response that is not cancelled.
BuiltFrom(p) ==
  IF procs[p].op = "W.signMessage" THEN procs[p].resp.signatureHex
  ELSE "signedDeploy(" \o procs[p].resp.signatureHex \o ")"

\* C2 as stated: sign and signMessage resolve to undefined exactly when the
\* provider's response is marked cancelled, and otherwise resolve to the
\* signed deploy / signature hex built from the response.
C2_CancelledIffUndefined ==
  \A p \in Calls :
    GotResponse(p)
    => /\ procs[p].resp.cancelled => procs[p].out = Resolved(Undefined)
       /\ ~procs[p].resp.cancelled => procs[p].out = Resolved(BuiltFrom(p))

\* C2 (amended): sign and signMessage resolve to undefined exactly when the
\* provider's response is marked cancelled; on a response that is not
\* cancelled signMessage resolves to its signature hex, and sign resolves to
\* the signed deploy built from it when the deploy parses and the signing key
\* is valid hex, and rejects otherwise.
C2_CancelledIffUndefinedOrRejects ==
  \A p \in Calls :
    GotResponse(p)
    => /\ procs[p].resp.cancelled => procs[p].out = Resolved(Undefined)
       /\ (~procs[p].resp.cancelled /\ procs[p].deployOk /\ procs[p].keyOk)
            => procs[p].out = Resolved(BuiltFrom(p))
       /\ (~procs[p].resp.cancelled /\ ~(procs[p].deployOk /\ procs[p].keyOk))
            => procs[p].out.kind = "rejected"
       /\ procs[p].out = Resolved(Undefined) => procs[p].resp.cancelled

\* A sign call was cancelled and resolved to undefined, and a signMessage call
\* was answered and resolved to the signature hex.
C2_Witness ==
  \E p, q \in Calls :
    /\ GotResponse(p) /\ GotResponse(q)
    /\ procs[p].op = "W.sign" /\ procs[p].resp.cancelled
    /\ procs[p].out = Resolved(Undefined)
    /\ procs[q].op = "W.signMessage" /\ ~procs[q].resp.cancelled
    /\ procs[q].out = Resolved(procs[q].resp.signatureHex)

(* --------------------------- the useSign hook -------------------------- *)
\* Requests a run may start on the hook.
MaxRequests == 2

\* { deploy, signingPublicKey, targetPublicKeyHex, ...args }
MergeParams(params, args) ==
  [f \in DOMAIN params |-> IF args[f] = Absent THEN params[f] ELSE args[f]]

\* The validation with the signing key tested before the deploy.
ValidateSignParamsKeyFirst(v) ==
  CASE Truthy(v.signingPublicKey) = "false" ->
         "signingPublicKey must be a non-empty string"
    [] Truthy(v.signingPublicKey) = "true" /\ Truthy(v.deploy) = "false" ->
         "Deploy must be a non-empty"
    [] Truthy(v.signingPublicKey) = "true" /\ Truthy(v.deploy) = "true"
         /\ Truthy(v.targetPublicKeyHex) = "false" ->
         "targetPublicKeyHex must be a non-empty string"
    [] OTHER -> Undefined

\* The validation of a request's variables: the error thrown, or Undefined.
ValidateSignParams(v) ==
  CASE Truthy(v.deploy) = "false" -> "Deploy must be a non-empty"
    [] Truthy(v.deploy) = "true" /\ Truthy(v.signingPublicKey) = "false" ->
         "signingPublicKey must be a non-empty string"
    [] Truthy(v.deploy) = "true" /\ Truthy(v.signingPublicKey) = "true"
         /\ Truthy(v.targetPublicKeyHex) = "false" ->
         "targetPublicKeyHex must be a non-empty string"
    [] OTHER -> Undefined

\* sign(args) / signAsync(args): a request starts and the hook is loading.
UseSignStart ==
  /\ hook.phase = "idle"
  /\ hook.requests < MaxRequests
  /\ \E mode \in {"sign", "signAsync"}, args \in SignArgs :
       hook' = [hook EXCEPT !.status = "loading", !.error = Undefined,
                            !.requests = @ + 1, !.mode = mode, !.args = args,
                            !.variables = MergeParams(hook.params, args),
                            !.phase = "validate", !.thrown = Undefined,
                            !.promise = NoResult, !.onSuccess = <<>>, !.logs = 0]
  /\ UNCHANGED <<client, ledger, nextT, wallet, procs>>

\* The mutation function: validate the variables, then call the sign action.
UseSignValidate ==
  /\ hook.phase = "validate"
  /\ hook' = IF ValidateSignParams(hook.variables) = Undefined
             THEN [hook EXCEPT !.phase = "signing"]
             ELSE [hook EXCEPT !.phase = "rejected",
                               !.thrown = ValidateSignParams(hook.variables)]
  /\ UNCHANGED <<client, ledger, nextT, wallet, procs>>

\* The sign action settles.
UseSignActionSettles ==
  /\ hook.phase = "signing"
  /\ \E ok \in BOOLEAN :
       hook' = IF ok THEN [hook EXCEPT !.phase = "resolved"]
               ELSE [hook EXCEPT !.phase = "rejected", !.thrown = "SignError"]
  /\ UNCHANGED <<client, ledger, nextT, wallet, procs>>

\* The request succeeded, but onSuccess is not called.
UseSignSuccessNoCallback ==
  /\ hook.phase = "resolved"
  /\ hook' = [hook EXCEPT !.phase = "idle", !.status = "success",
                          !.promise = IF hook.mode = "signAsync"
                                      THEN Resolved(Undefined) ELSE @]
  /\ UNCHANGED <<client, ledger, nextT, wallet, procs>>

\* The request succeeded: the hook is in the success state and onSuccess is
\* called with the request's variables.
UseSignSuccess ==
  /\ hook.phase = "resolved"
  /\ hook' = [hook EXCEPT !.phase = "idle", !.status = "success",
                          !.onSuccess = Append(@, hook.variables),
                          !.promise = IF hook.mode = "signAsync"
                                      THEN Resolved(Undefined) ELSE @]
  /\ UNCHANGED <<client, ledger, nextT, wallet, procs>>

\* The request failed: the error is logged once, the hook is in the error
\* state, and the promise of signAsync rejects with the error.
UseSignError ==
  /\ hook.phase = "rejected"
  /\ hook' = [hook EXCEPT !.phase = "idle", !.status = "error",
                          !.error = hook.thrown, !.logs = @ + 1,
                          !.promise = IF hook.mode = "signAsync"
                                      THEN Rejected(hook.thrown) ELSE @]
  /\ UNCHANGED <<client, ledger, nextT, wallet, procs>>

InitUseSign ==
  /\ client = ClientInit("none")
  /\ ledger = LedgerInit
  /\ nextT = 0
  /\ wallet = WalletInit(TRUE)
  /\ procs = [p \in Calls |-> IdleProc]
  /\ \E params \in SignParams : hook = HookInit(params)

NextUseSign ==
  \/ UseSignStart
  \/ UseSignValidate
  \/ UseSignActionSettles
  \/ UseSignSuccess
  \/ UseSignError

\* The continuations of a request run once they are queued; the sign action
\* itself may wait for the user for ever.
SpecUseSign ==
  /\ InitUseSign
  /\ [][NextUseSign]_vars
  /\ WF_vars(UseSignValidate)
  /\ WF_vars(UseSignSuccess)
  /\ WF_vars(UseSignError)

\* A request that has been rejected and reported.
UseSignFailed == hook.phase = "idle" /\ hook.status = "error"

\* C3: a request with no deploy is rejected with 'Deploy must be a non-empty'
\* whatever the key fields are; with a deploy but no signingPublicKey with
\* 'signingPublicKey must be a non-empty string'; with both but no
\* targetPublicKeyHex with 'targetPublicKeyHex must be a non-empty string';
\* each rejected request logs the error exactly once.
C3_ValidationOrder ==
  LET v == hook.variables
      missing(x) == x \in {Undefined, ""}
      expected ==
        CASE missing(v.deploy) -> "Deploy must be a non-empty"
          [] ~missing(v.deploy) /\ missing(v.signingPublicKey) ->
               "signingPublicKey must be a non-empty string"
          [] OTHER -> "targetPublicKeyHex must be a non-empty string"
  IN
  /\ (hook.phase = "idle" /\ hook.requests > 0
      /\ (missing(v.deploy) \/ missing(v.signingPublicKey)
            \/ missing(v.targetPublicKeyHex)))
     => /\ hook.status = "error"
        /\ hook.error = expected
        /\ hook.mode = "signAsync" => hook.promise = Rejected(expected)
  /\ UseSignFailed => hook.logs = 1

\* A signAsync request with a deploy and a signing key, but an empty
\* targetPublicKeyHex, was rejected.
C3_Witness ==
  /\ UseSignFailed
  /\ hook.mode = "signAsync"
  /\ hook.variables.deploy = "{}"
  /\ hook.variables.signingPublicKey = "abc"
  /\ hook.variables.targetPublicKeyHex = ""
  /\ hook.promise = Rejected("targetPublicKeyHex must be a non-empty string")
  /\ hook.logs = 1

\* The latest request is over and its sign action had completed successfully.
UseSignSucceeded ==
  /\ hook.status = "success"
  /\ hook.onSuccess = <<hook.variables>>

=============================================================================
